---- MODULE Spec2Model ----
(***************************************************************************)
(* Model of the ChittyOS Standard Framework installer                      *)
(* (src/scripts/install.js, class ChittyStandardInstaller).                *)
(*                                                                         *)
(* The installer is one sequential pipeline.  Each await-ed filesystem     *)
(* call, subprocess call and prompt of the source is one step; a step      *)
(* that throws carries the enclosing catch blocks with it, down to         *)
(* process.exit(1) in run().                                               *)
(***************************************************************************)
EXTENDS Integers, Sequences, FiniteSets, TLC

VARIABLES
  pc,             \* position of the pipeline inside run()
  nodeVersion,    \* process.version, a sequence of characters
  packageManager, \* this.packageManager
  config,         \* this.config, an object: a function from its keys
  answered,       \* the questions inquirer asked, with the answers given
  cwd,            \* process.cwd(), a path (sequence of segments)
  dirs,           \* the directories of the filesystem
  files,          \* the files of the filesystem: path -> content
  procs,          \* the subprocesses execSync has started
  out,            \* what the spinner and the console have shown
  exitCode,       \* the exit code of the process
  stagesRun,      \* the stage methods run() has called, in call order
  idx,            \* the position of the for loop in progress
  promptError,    \* the validation message inquirer shows under a question
  caught,         \* the error bound in the catch block being run
  allDependenciesMet  \* the flag of check-dependencies.js

vars == <<pc, nodeVersion, packageManager, config, answered, cwd, dirs,
          files, procs, out, exitCode, stagesRun, idx, promptError, caught,
          allDependenciesMet>>

(***************************************************************************)
(* Bounds of the model.                                                    *)
(***************************************************************************)
\* largest major version of the runtime drawn for detectEnvironment
MaxMajor == 120
\* largest number of component installs that fail in one run
MaxWarnings == 2

(***************************************************************************)
(* Inputs of the model.                                                    *)
(***************************************************************************)
\* major versions of the runtime the whole pipeline is run under
PipelineMajors == {16, 20}
\* what the user types at the project-name question
ProjectNames == {"", "demo", "cancelled", "MyApp"}
\* the package managers detectPackageManager() reports
PackageManagers == {"npm", "yarn"}
\* the directory the installer is started in
InitialCwd == <<"work">>
\* __dirname of install.js
ScriptDir == <<"pkg", "scripts">>
\* the project directory a previous run may have left behind
OldProject == <<"work", "demo">>
OldFiles == {OldProject \o <<"package.json">>, OldProject \o <<"notes.txt">>,
             OldProject \o <<"tsconfig.json">>}

(***************************************************************************)
(* Objects, paths and the filesystem.                                      *)
(***************************************************************************)
EmptyObject == [k \in {} |-> TRUE]

Has(obj, k) == k \in DOMAIN obj

SetKey(obj, k, v) == [x \in (DOMAIN obj) \cup {k} |-> IF x = k THEN v ELSE obj[x]]

Includes(message, word) == \E i \in DOMAIN message : message[i] = word

Range(seq) == {seq[i] : i \in DOMAIN seq}

RECURSIVE Normalize(_)
\* path.join: ".." removes the segment before it
Normalize(p) ==
  IF \E i \in 2..Len(p) : p[i] = ".." /\ p[i-1] # ".."
  THEN LET i == CHOOSE j \in 2..Len(p) :
                  /\ p[j] = ".." /\ p[j-1] # ".."
                  /\ \A k \in 2..(j-1) : ~(p[k] = ".." /\ p[k-1] # "..")
       IN Normalize(SubSeq(p, 1, i-2) \o SubSeq(p, i+1, Len(p)))
  ELSE p

PathJoin(a, b) == Normalize(a \o b)

IsPrefix(p, q) == Len(p) <= Len(q) /\ SubSeq(q, 1, Len(p)) = p

Parent(p) == SubSeq(p, 1, Len(p) - 1)

Prefixes(p) == {SubSeq(p, 1, k) : k \in 1..Len(p)}

Exists(p) == p \in dirs \/ p \in DOMAIN files

\* fs.mkdir(p, {recursive: true})
MkdirP(ds, p) == ds \cup Prefixes(p)

\* fs.writeFile(p, content) and the target side of fs.copyFile
WriteTo(fs, p, content) == [x \in (DOMAIN fs) \cup {p} |-> IF x = p THEN content ELSE fs[x]]

\* a removal that is not recursive: only the entry p itself goes
RmFilesNotRecursive(fs, p) == [x \in {f \in DOMAIN fs : f # p} |-> fs[x]]

\* fs.rm(p, {recursive: true, force: true})
RmDirs(ds, p) == {d \in ds : ~IsPrefix(p, d)}

RmFiles(fs, p) == [x \in {f \in DOMAIN fs : ~IsPrefix(p, f)} |-> fs[x]]

\* the results of one filesystem call: it succeeds or the system refuses it
IoResults == {"ok", "EACCES"}

FsError(code, op, p) ==
  [code |-> code, message |-> <<code, op>> \o p]

\* an Error made with new Error(...) has no code
PlainError(message) == [code |-> "undefined", message |-> message]

\* no catch block is being run
NoError == [code |-> "none", message |-> <<>>]

\* what a write below directory Parent(p) comes to
WriteResult(io, p) ==
  IF io # "ok" THEN io ELSE IF Parent(p) \notin dirs THEN "ENOENT" ELSE "ok"

(***************************************************************************)
(* process.version and the version test of detectEnvironment.              *)
(***************************************************************************)
DigitChars == <<"0", "1", "2", "3", "4", "5", "6", "7", "8", "9">>

DigitChar(d) == DigitChars[d + 1]

RECURSIVE Decimal(_)
Decimal(n) == IF n < 10 THEN <<DigitChar(n)>>
              ELSE Append(Decimal(n \div 10), DigitChar(n % 10))

VersionString(major, minor, patch) ==
  <<"v">> \o Decimal(major) \o <<".">> \o Decimal(minor) \o <<".">> \o Decimal(patch)

IsDigit(c) == \E d \in 0..9 : c = DigitChar(d)

\* nodeVersion.match(/^v(1[89]|[2-9]\d)/)
MatchesSupported(v) ==
  /\ Len(v) >= 3
  /\ v[1] = "v"
  /\ \/ v[2] = "1" /\ v[3] \in {"8", "9"}
     \/ v[2] \in {DigitChar(d) : d \in 2..9} /\ IsDigit(v[3])

(***************************************************************************)
(* The questions of promptConfiguration.                                   *)
(***************************************************************************)
InstallationTypes == {"standard", "minimal", "full", "custom"}

AppChoices == <<"chittyresolution", "chittychronicle", "chittyevidence",
                "chittyflow", "chittyintel", "chittytrace", "chittycloude-mcp">>

\* a checkbox answers with the checked choices, in the order of the choices
Checked(S) ==
  LET f[i \in 0..Len(AppChoices)] ==
        IF i = 0 THEN <<>>
        ELSE IF i \in S THEN Append(f[i-1], AppChoices[i]) ELSE f[i-1]
  IN f[Len(AppChoices)]

\* the selections the user makes at the component question
AppSelections == {{}, {1, 2}, {4}, {3, 7}}

\* when: (answers) => answers.installationType === 'custom'
AppsQuestionAsked(answers) == answers.installationType = "custom"

FullApps == AppChoices

StandardApps == <<"chittyresolution", "chittychronicle">>

\* the branch for 'standard' is missing
ConfigFromAnswersNoStandard(answers) ==
  IF answers.installationType = "full" THEN SetKey(answers, "apps", FullApps)
  ELSE IF answers.installationType = "minimal" THEN SetKey(answers, "apps", <<>>)
  ELSE answers

\* a last else branch gives 'custom' the default components
ConfigFromAnswersCustomDefault(answers) ==
  IF answers.installationType = "full" THEN SetKey(answers, "apps", FullApps)
  ELSE IF answers.installationType = "standard" THEN SetKey(answers, "apps", StandardApps)
  ELSE IF answers.installationType = "minimal" THEN SetKey(answers, "apps", <<>>)
  ELSE SetKey(answers, "apps", StandardApps)

\* this.config = answers, then the tier's component list
ConfigFromAnswers(answers) ==
  IF answers.installationType = "full" THEN SetKey(answers, "apps", FullApps)
  ELSE IF answers.installationType = "standard" THEN SetKey(answers, "apps", StandardApps)
  ELSE IF answers.installationType = "minimal" THEN SetKey(answers, "apps", <<>>)
  ELSE answers

\* this.config.apps || []
AppsOrEmpty(cfg) == IF Has(cfg, "apps") THEN cfg.apps ELSE <<>>

(***************************************************************************)
(* The stages of run() and what the spinner says around them.              *)
(***************************************************************************)
Stages == <<"detectEnvironment", "promptConfiguration", "checkExistingInstallation",
            "installFramework", "setupSharedDependencies", "configureIntegration",
            "finalizeInstallation", "showSuccessMessage">>

StageIndex(stage) == CHOOSE i \in DOMAIN Stages : Stages[i] = stage

\* installFramework and setupSharedDependencies are called in the other order
NextStageSwapped(stage) ==
  CASE stage = "checkExistingInstallation" -> "setupSharedDependencies"
    [] stage = "setupSharedDependencies" -> "installFramework"
    [] stage = "installFramework" -> "configureIntegration"
    [] OTHER -> Stages[StageIndex(stage) + 1]

\* the statement of the try block of run() that follows the call of stage
NextStage(stage) == Stages[StageIndex(stage) + 1]

Line(ch, text) == [ch |-> ch, text |-> text]

StartText(stage) ==
  CASE stage = "detectEnvironment" -> <<Line("spinner.start", "Detecting environment...")>>
    [] stage = "checkExistingInstallation" -> <<Line("spinner.start", "Checking for existing installation...")>>
    [] stage = "installFramework" -> <<Line("spinner.start", "Installing ChittyOS Standard Framework...")>>
    [] stage = "setupSharedDependencies" -> <<Line("spinner.start", "Setting up shared dependencies...")>>
    [] stage = "configureIntegration" -> <<Line("spinner.start", "Configuring ChittyApps integration...")>>
    [] stage = "finalizeInstallation" -> <<Line("spinner.start", "Finalizing installation...")>>
    [] OTHER -> <<>>

Succeed(text) == <<Line("spinner.succeed", text)>>

StageFail(text) == <<Line("spinner.fail", text)>>

\* the first step of a stage
FirstPc(stage, cfg) ==
  CASE stage = "detectEnvironment" -> "detectEnvironment"
    [] stage = "promptConfiguration" -> "promptConfiguration"
    [] stage = "checkExistingInstallation" -> "check.access"
    [] stage = "installFramework" -> "install.mkdir"
    [] stage = "setupSharedDependencies" -> "shared.copy"
    [] stage = "configureIntegration" ->
         IF Has(cfg, "apps") /\ Len(cfg.apps) > 0 THEN "configure.install"
         ELSE "configure.writeConfig"
    [] stage = "finalizeInstallation" -> "finalize.install"
    [] stage = "showSuccessMessage" -> "showSuccessMessage"

\* the catch block of run()
RunCatch(error) ==
  <<Line("spinner.fail", "Installation failed"),
    [ch |-> "console.error", text |-> "Error:", message |-> error.message]>>

\* the catch block of run() without its process.exit(1)
ThrowWithoutExit(stageFail, error) ==
  /\ pc' = "done"
  /\ out' = out \o stageFail \o RunCatch(error)
  /\ caught' = NoError
  /\ UNCHANGED <<exitCode, stagesRun, idx, promptError, allDependenciesMet>>

\* a step throws: the stage's catch block (stageFail), then the one of run()
Throw(stageFail, error) ==
  /\ pc' = "exited"
  /\ out' = out \o stageFail \o RunCatch(error)
  /\ exitCode' = 1
  /\ caught' = NoError
  /\ UNCHANGED <<stagesRun, idx, promptError, allDependenciesMet>>

\* a step inside a stage is done and the next step of the stage follows
Goto(nextPc, i, lines) ==
  /\ pc' = nextPc
  /\ idx' = i
  /\ out' = out \o lines
  /\ UNCHANGED <<exitCode, stagesRun, promptError, caught, allDependenciesMet>>

\* a stage returns and run() calls the next one
Return(stage, cfg, lines) ==
  LET nxt == NextStage(stage) IN
  /\ pc' = FirstPc(nxt, cfg)
  /\ idx' = 1
  /\ out' = out \o lines \o StartText(nxt)
  /\ stagesRun' = Append(stagesRun, nxt)
  /\ promptError' = "none"
  /\ caught' = NoError
  /\ UNCHANGED <<exitCode, allDependenciesMet>>

(***************************************************************************)
(* The state after construction.                                           *)
(***************************************************************************)
FilesToCopy == <<"tsconfig.json", "vite.config.ts", "tailwind.config.js",
                 "postcss.config.js", ".eslintrc.json", ".prettierrc">>

TemplatesPath == PathJoin(ScriptDir, <<"..", "templates">>)

\* the templates a package holds: all of them, the one of this repository, none
TemplateSets == {{FilesToCopy[i] : i \in DOMAIN FilesToCopy}, {"vite.config.ts"}, {}}

TemplateFiles(present) ==
  [p \in {TemplatesPath \o <<f>> : f \in present} |-> [kind |-> "template", file |-> p[Len(p)]]]

OldContent == [p \in OldFiles |-> [kind |-> "old", file |-> p[Len(p)]]]

InitCommon ==
  /\ pc = "run"
  /\ packageManager = "npm"
  /\ config = EmptyObject
  /\ answered = <<>>
  /\ cwd = InitialCwd
  /\ procs = <<>>
  /\ out = <<>>
  /\ exitCode = 0
  /\ stagesRun = <<>>
  /\ idx = 1
  /\ promptError = "none"
  /\ caught = NoError
  /\ allDependenciesMet = TRUE

InitFs(present, old) ==
  /\ dirs = {InitialCwd, <<"pkg">>, ScriptDir, TemplatesPath}
              \cup (IF old THEN {OldProject} ELSE {})
  /\ files = (IF old THEN OldContent ELSE EmptyObject) @@ TemplateFiles(present)

Init ==
  /\ InitCommon
  /\ nodeVersion \in {VersionString(m, 0, 0) : m \in PipelineMajors}
  /\ \E present \in TemplateSets, old \in BOOLEAN : InitFs(present, old)

(***************************************************************************)
(* run(): the banner, then the first stage.                                *)
(***************************************************************************)
Run ==
  /\ pc = "run"
  /\ pc' = FirstPc(Stages[1], config)
  /\ out' = out \o <<Line("console.log", "ChittyOS Standard Framework Installer")>>
                \o StartText(Stages[1])
  /\ stagesRun' = Append(stagesRun, Stages[1])
  /\ UNCHANGED <<nodeVersion, packageManager, config, answered, cwd, dirs, files,
                 procs, exitCode, idx, promptError, caught, allDependenciesMet>>

(***************************************************************************)
(* detectEnvironment                                                       *)
(***************************************************************************)
DetectEnvironment ==
  /\ pc = "detectEnvironment"
  /\ \E pm \in PackageManagers :
       /\ packageManager' = pm
       /\ IF ~MatchesSupported(nodeVersion)
          THEN Throw(StageFail("Failed to detect environment"),
                     PlainError(<<"Node.js", "18.0.0", "or", "higher", "is", "required">>))
          ELSE Return("detectEnvironment", config,
                      <<[ch |-> "spinner.succeed", text |-> "Environment detected",
                         node |-> nodeVersion, pm |-> pm]>>)
  /\ UNCHANGED <<nodeVersion, config, answered, cwd, dirs, files, procs>>

(***************************************************************************)
(* promptConfiguration                                                     *)
(***************************************************************************)
Answer(name, value) == [name |-> name, value |-> value]

\* default: 'my-chittyapp'
DefaultProjectName == "my-chittyapp"

\* the value an input question hands on: an empty input stands for the default
InputValue(typed) == IF typed = "" THEN DefaultProjectName ELSE typed

\* the characters of the names of the model
Spelling(name) ==
  CASE name = "" -> <<>>
    [] name = "demo" -> <<"d", "e", "m", "o">>
    [] name = "cancelled" -> <<"c", "a", "n", "c", "e", "l", "l", "e", "d">>
    [] name = "MyApp" -> <<"M", "y", "A", "p", "p">>
    [] name = "my-chittyapp" ->
         <<"m", "y", "-", "c", "h", "i", "t", "t", "y", "a", "p", "p">>

LowercaseLetters ==
  {"a", "b", "c", "d", "e", "f", "g", "h", "i", "j", "k", "l", "m",
   "n", "o", "p", "q", "r", "s", "t", "u", "v", "w", "x", "y", "z"}

\* validateNpmPackageName(input).validForNewPackages: the name is not empty,
\* does not start with "." or "_", and holds only lowercase letters, digits
\* and "-", ".", "_"
ValidForNewPackages(name) ==
  LET chars == Spelling(name) IN
  /\ Len(chars) > 0
  /\ chars[1] \notin {".", "_"}
  /\ \A i \in DOMAIN chars :
       chars[i] \in LowercaseLetters \cup Range(DigitChars) \cup {"-", ".", "_"}

\* the validate function of the question answers with anything
ValidateInputAlways(input) == TRUE

\* validate: (input) => ... 'Invalid project name' or true
ValidateInput(input) == ValidForNewPackages(input)

\* the project-name question rejects the input and is asked again
RejectProjectName ==
  /\ pc = "promptConfiguration"
  /\ \E typed \in ProjectNames :
       /\ ~ValidateInput(InputValue(typed))
       /\ promptError' = "Invalid project name"
  /\ UNCHANGED <<pc, nodeVersion, packageManager, config, answered, cwd, dirs, files,
                 procs, out, exitCode, stagesRun, idx, caught, allDependenciesMet>>

PromptConfiguration ==
  /\ pc = "promptConfiguration"
  /\ \E typed \in ProjectNames, type \in InstallationTypes, sel \in AppSelections,
        db \in BOOLEAN, auth \in BOOLEAN, docker \in BOOLEAN :
       LET name == InputValue(typed)
           first == [projectName |-> name, installationType |-> type]
           asked == AppsQuestionAsked(first)
           withApps == IF asked THEN SetKey(first, "apps", Checked(sel)) ELSE first
           answers == SetKey(SetKey(SetKey(withApps, "includeDatabase", db),
                                    "includeAuth", auth), "includeDocker", docker)
       IN /\ ValidateInput(name)
          /\ asked \/ sel = {}
          /\ answered' = answered
                \o <<[name |-> "projectName", value |-> name, input |-> typed],
                     Answer("installationType", type)>>
                \o (IF asked THEN <<Answer("apps", Checked(sel))>> ELSE <<>>)
                \o <<Answer("includeDatabase", db), Answer("includeAuth", auth),
                     Answer("includeDocker", docker)>>
          /\ config' = ConfigFromAnswers(answers)
          /\ Return("promptConfiguration", config', <<>>)
  /\ UNCHANGED <<nodeVersion, packageManager, cwd, dirs, files, procs>>

(***************************************************************************)
(* checkExistingInstallation                                               *)
(***************************************************************************)
ProjectPath == PathJoin(cwd, <<config.projectName>>)

\* the catch block: error.code !== 'ENOENT' && !error.message.includes('cancelled')
Rethrown(error) == error.code # "ENOENT" /\ ~Includes(error.message, "cancelled")

\* the catch block of checkExistingInstallation, run with the error it caught
CheckCatch(error) ==
  IF Rethrown(error)
  THEN Throw(<<>>, error)
  ELSE Return("checkExistingInstallation", config, Succeed("Ready to install"))

\* a statement of the try block throws: the catch block comes next
CheckThrow(error) ==
  /\ pc' = "check.catch"
  /\ caught' = error
  /\ UNCHANGED <<out, exitCode, stagesRun, idx, promptError, allDependenciesMet>>

CheckCatchBlock ==
  /\ pc = "check.catch"
  /\ CheckCatch(caught)
  /\ UNCHANGED <<nodeVersion, packageManager, config, answered, cwd, dirs, files, procs>>

CheckAccess ==
  /\ pc = "check.access"
  /\ \E io \in IoResults :
       LET res == IF io # "ok" THEN io
                  ELSE IF ~Exists(ProjectPath) THEN "ENOENT" ELSE "ok"
       IN IF res = "ok"
          THEN Goto("check.confirm", idx, <<Line("spinner.warn", "Directory already exists")>>)
          ELSE CheckThrow(FsError(res, "access", ProjectPath))
  /\ UNCHANGED <<nodeVersion, packageManager, config, answered, cwd, dirs, files, procs>>

ConfirmOverwrite ==
  /\ pc = "check.confirm"
  /\ \E overwrite \in BOOLEAN :
       /\ answered' = Append(answered, Answer("overwrite", overwrite))
       /\ IF ~overwrite
          THEN CheckThrow(PlainError(<<"Installation", "cancelled">>))
          ELSE Goto("check.rm", idx, <<>>)
  /\ UNCHANGED <<nodeVersion, packageManager, config, cwd, dirs, files, procs>>

RemoveExisting ==
  /\ pc = "check.rm"
  /\ \E io \in IoResults :
       IF io = "ok"
       THEN /\ dirs' = RmDirs(dirs, ProjectPath)
            /\ files' = RmFiles(files, ProjectPath)
            /\ Return("checkExistingInstallation", config, Succeed("Ready to install"))
       ELSE /\ UNCHANGED <<dirs, files>>
            /\ CheckThrow(FsError(io, "rm", ProjectPath))
  /\ UNCHANGED <<nodeVersion, packageManager, config, answered, cwd, procs>>

(***************************************************************************)
(* Subprocesses.                                                           *)
(***************************************************************************)
\* this.packageManager === 'yarn' ? 'yarn add' : `${this.packageManager} install`
InstallCmd(pm) == IF pm = "yarn" THEN <<"yarn", "add">> ELSE <<pm, "install">>

\* this.packageManager === 'yarn' ? 'yarn' : `${this.packageManager} install`
BulkInstallCmd(pm) == IF pm = "yarn" THEN <<"yarn">> ELSE <<pm, "install">>

Exec(cmd) == Append(procs, [cmd |-> cmd, cwd |-> cwd])

ExecError(cmd) == PlainError(<<"Command", "failed:">> \o cmd)

\* a package manager that installs a package records it in the manifest of
\* the working directory
Installed(fs, dir, pkg) ==
  LET m == dir \o <<"package.json">> IN
  IF m \in DOMAIN fs /\ fs[m].kind = "manifest"
  THEN WriteTo(fs, m, [fs[m] EXCEPT !.dependencies = @ \cup {pkg}])
  ELSE fs

\* fs.writeFile whose failure cleans up the directory it was writing into
FileWriteRollback(p, content, stageFail, Then) ==
  \E io \in IoResults :
    LET res == WriteResult(io, p) IN
    IF res = "ok"
    THEN files' = WriteTo(files, p, content) /\ Then
    ELSE /\ files' = [q \in {q \in DOMAIN files : ~IsPrefix(Parent(p), q)} |-> files[q]]
         /\ Throw(stageFail, FsError(res, "open", p))

\* fs.writeFile whose error is dropped: the stage goes on without the file
FileWriteIgnoreErrors(p, content, stageFail, Then) ==
  \E io \in IoResults :
    LET res == WriteResult(io, p) IN
    IF res = "ok"
    THEN files' = WriteTo(files, p, content) /\ Then
    ELSE UNCHANGED files /\ Then

\* the step fs.writeFile(p, content); Then is what follows in the stage
FileWrite(p, content, stageFail, Then) ==
  \E io \in IoResults :
    LET res == WriteResult(io, p) IN
    IF res = "ok"
    THEN files' = WriteTo(files, p, content) /\ Then
    ELSE UNCHANGED files /\ Throw(stageFail, FsError(res, "open", p))

\* the step fs.mkdir(p, {recursive: true})
DirMake(p, stageFail, Then) ==
  \E io \in IoResults :
    IF io = "ok"
    THEN dirs' = MkdirP(dirs, p) /\ Then
    ELSE UNCHANGED dirs /\ Throw(stageFail, FsError(io, "mkdir", p))

(***************************************************************************)
(* installFramework                                                        *)
(***************************************************************************)
FrameworkFailed == StageFail("Framework installation failed")

PackageJson(cfg) ==
  [kind |-> "manifest", name |-> cfg.projectName, version |-> "1.0.0",
   type |-> "module", dependencies |-> {}, devDependencies |-> {}]

\* projectPath is computed once, before process.chdir
InstallMkdir ==
  /\ pc = "install.mkdir"
  /\ DirMake(ProjectPath, FrameworkFailed, Goto("install.writeFile", idx, <<>>))
  /\ UNCHANGED <<nodeVersion, packageManager, config, answered, cwd, files, procs>>

InstallWriteManifest ==
  /\ pc = "install.writeFile"
  /\ FileWrite(PathJoin(ProjectPath, <<"package.json">>), PackageJson(config),
               FrameworkFailed, Goto("install.chdir", idx, <<>>))
  /\ UNCHANGED <<nodeVersion, packageManager, config, answered, cwd, dirs, procs>>

\* installFramework without its process.chdir
InstallChdirSkipped ==
  /\ pc = "install.chdir"
  /\ UNCHANGED cwd
  /\ Goto("install.exec", idx, <<>>)
  /\ UNCHANGED <<nodeVersion, packageManager, config, answered, dirs, files, procs>>

InstallChdir ==
  /\ pc = "install.chdir"
  /\ IF ProjectPath \in dirs
     THEN cwd' = ProjectPath /\ Goto("install.exec", idx, <<>>)
     ELSE UNCHANGED cwd /\ Throw(FrameworkFailed, FsError("ENOENT", "chdir", ProjectPath))
  /\ UNCHANGED <<nodeVersion, packageManager, config, answered, dirs, files, procs>>

SharedPackage == "@chittyos/shared"

InstallShared ==
  /\ pc = "install.exec"
  /\ LET cmd == InstallCmd(packageManager) \o <<SharedPackage>> IN
     /\ procs' = Exec(cmd)
     /\ \E ok \in BOOLEAN :
          IF ok
          THEN /\ files' = Installed(files, cwd, SharedPackage)
               /\ dirs' = MkdirP(dirs, cwd \o <<"node_modules">>)
               /\ Return("installFramework", config, Succeed("Framework installed"))
          ELSE /\ UNCHANGED <<files, dirs>>
               /\ Throw(FrameworkFailed, ExecError(cmd))
  /\ UNCHANGED <<nodeVersion, packageManager, config, answered, cwd>>

(***************************************************************************)
(* setupSharedDependencies                                                 *)
(***************************************************************************)
SharedFailed == StageFail("Failed to setup dependencies")

\* the inner catch rethrows whatever it catches
CopyRethrownAlways(code) == TRUE

\* the inner catch of the copy loop: if (error.code !== 'ENOENT') throw error
CopyRethrown(code) == code # "ENOENT"

\* what fs.copyFile(src, dst) comes to
CopyResult(io, src, dst) ==
  IF io # "ok" THEN io
  ELSE IF src \notin DOMAIN files \/ Parent(dst) \notin dirs THEN "ENOENT" ELSE "ok"

\* a copy loop that warns and tries the same file again when it is missing
CopyTemplateRetry ==
  /\ pc = "shared.copy"
  /\ LET file == FilesToCopy[idx]
         templateFile == PathJoin(TemplatesPath, <<file>>)
         targetFile == PathJoin(cwd, <<file>>)
         after == IF idx < Len(FilesToCopy)
                  THEN Goto("shared.copy", idx + 1, <<>>)
                  ELSE Goto("shared.mkdirSrc", 1, <<>>)
     IN \E io \in IoResults :
          LET res == CopyResult(io, templateFile, targetFile) IN
          IF res = "ok"
          THEN files' = WriteTo(files, targetFile, files[templateFile]) /\ after
          ELSE IF CopyRethrown(res)
          THEN UNCHANGED files /\ Throw(SharedFailed, FsError(res, "copyfile", templateFile))
          ELSE UNCHANGED files
               /\ Goto("shared.copy", idx, <<Line("console.warn", "Template missing, retrying")>>)
  /\ UNCHANGED <<nodeVersion, packageManager, config, answered, cwd, dirs, procs>>

CopyTemplate ==
  /\ pc = "shared.copy"
  /\ LET file == FilesToCopy[idx]
         templateFile == PathJoin(TemplatesPath, <<file>>)
         targetFile == PathJoin(cwd, <<file>>)
         after == IF idx < Len(FilesToCopy)
                  THEN Goto("shared.copy", idx + 1, <<>>)
                  ELSE Goto("shared.mkdirSrc", 1, <<>>)
     IN \E io \in IoResults :
          LET res == CopyResult(io, templateFile, targetFile) IN
          IF res = "ok"
          THEN files' = WriteTo(files, targetFile, files[templateFile]) /\ after
          ELSE IF CopyRethrown(res)
          THEN UNCHANGED files /\ Throw(SharedFailed, FsError(res, "copyfile", templateFile))
          ELSE UNCHANGED files /\ after
  /\ UNCHANGED <<nodeVersion, packageManager, config, answered, cwd, dirs, procs>>

MkdirSrc ==
  /\ pc = "shared.mkdirSrc"
  /\ DirMake(PathJoin(cwd, <<"src">>), SharedFailed, Goto("shared.mkdirPublic", idx, <<>>))
  /\ UNCHANGED <<nodeVersion, packageManager, config, answered, cwd, files, procs>>

MkdirPublic ==
  /\ pc = "shared.mkdirPublic"
  /\ DirMake(PathJoin(cwd, <<"public">>), SharedFailed,
             Return("setupSharedDependencies", config, Succeed("Shared dependencies configured")))
  /\ UNCHANGED <<nodeVersion, packageManager, config, answered, cwd, files, procs>>

(***************************************************************************)
(* configureIntegration                                                    *)
(***************************************************************************)
IntegrationFailed == StageFail("Integration configuration failed")

AppWarning(app) ==
  [ch |-> "console.warn", text |-> "Could not install", app |-> app]

Warnings == {i \in DOMAIN out : out[i].text = "Could not install"}

\* the catch block of the component loop rethrows
ComponentCatchRethrow(error, Continue) ==
  Throw(StageFail("Integration configuration failed"), error)

\* the catch block of the component loop: it warns, and the loop goes on
ComponentCatch(error, Continue) == Continue

\* the component loop strikes a component that failed to install off the config
InstallAppDropsFailed ==
  /\ pc = "configure.install"
  /\ LET app == config.apps[idx]
         cmd == InstallCmd(packageManager) \o <<"@chittyapps/", app>>
         after(i, n, lines) == IF i <= n
                               THEN Goto("configure.install", i, lines)
                               ELSE Goto("configure.writeConfig", 1, lines)
     IN /\ procs' = Exec(cmd)
        /\ \/ /\ files' = Installed(files, cwd, app)
              /\ UNCHANGED config
              /\ after(idx + 1, Len(config.apps), <<>>)
           \/ /\ Cardinality(Warnings) < MaxWarnings
              /\ UNCHANGED files
              /\ config' = [config EXCEPT !.apps =
                              SubSeq(@, 1, idx - 1) \o SubSeq(@, idx + 1, Len(@))]
              /\ after(idx, Len(config.apps) - 1, <<AppWarning(app)>>)
  /\ UNCHANGED <<nodeVersion, packageManager, answered, cwd, dirs>>

InstallApp ==
  /\ pc = "configure.install"
  /\ LET app == config.apps[idx]
         cmd == InstallCmd(packageManager) \o <<"@chittyapps/", app>>
         after(lines) == IF idx < Len(config.apps)
                         THEN Goto("configure.install", idx + 1, lines)
                         ELSE Goto("configure.writeConfig", 1, lines)
     IN /\ procs' = Exec(cmd)
        /\ \/ /\ files' = Installed(files, cwd, app)
              /\ after(<<>>)
           \/ /\ Cardinality(Warnings) < MaxWarnings
              /\ UNCHANGED files
              /\ ComponentCatch(ExecError(cmd), after(<<AppWarning(app)>>))
  /\ UNCHANGED <<nodeVersion, packageManager, config, answered, cwd, dirs>>

\* a value inside a template literal: `${value}`
TemplateText(cfg, key) ==
  IF ~Has(cfg, key) THEN "undefined" ELSE IF cfg[key] THEN "true" ELSE "false"

RECURSIVE JsonItems(_)
JsonItems(list) ==
  IF Len(list) = 0 THEN <<>>
  ELSE IF Len(list) = 1 THEN <<"\"", list[1], "\"">>
  ELSE <<"\"", list[1], "\"", ",">> \o JsonItems(Tail(list))

\* JSON.stringify of an array of strings
JsonStringify(list) == <<"[">> \o JsonItems(list) \o <<"]">>

\* authentication and docker take each other's toggle
ConfigContentSwapped(cfg) ==
  [kind |-> "chittyConfig", framework |-> "standard", version |-> "1.0.0",
   apps |-> JsonStringify(AppsOrEmpty(cfg)),
   features |-> [database |-> TemplateText(cfg, "includeDatabase"),
                 authentication |-> TemplateText(cfg, "includeDocker"),
                 docker |-> TemplateText(cfg, "includeAuth")]]

ConfigContent(cfg) ==
  [kind |-> "chittyConfig", framework |-> "standard", version |-> "1.0.0",
   apps |-> JsonStringify(AppsOrEmpty(cfg)),
   features |-> [database |-> TemplateText(cfg, "includeDatabase"),
                 authentication |-> TemplateText(cfg, "includeAuth"),
                 docker |-> TemplateText(cfg, "includeDocker")]]

\* if (this.config.<key>)
\* the test of a toggle as a test that the answer is there
TruthyDefined(cfg, key) == Has(cfg, key)

Truthy(cfg, key) == Has(cfg, key) /\ cfg[key] = TRUE

SubGenerators == <<"includeDatabase", "includeAuth", "includeDocker">>

SubGeneratorPc == <<"database.env", "auth.mkdir", "docker.dockerfile">>

\* the sub-generators are called whatever their toggles
NextSubGeneratorAll(k, cfg) == IF k < Len(SubGenerators) THEN k + 1 ELSE 0

\* the sub-generators configureIntegration calls after the k-th one (the
\* 0-th is the write of the config module): 0 when none is left
NextSubGenerator(k, cfg) ==
  LET left == {j \in (k+1)..Len(SubGenerators) : Truthy(cfg, SubGenerators[j])}
  IN IF left = {} THEN 0 ELSE CHOOSE j \in left : \A i \in left : j <= i

\* the k-th sub-generator has returned
AfterSubGenerator(k) ==
  LET j == NextSubGenerator(k, config) IN
  IF j = 0
  THEN Return("configureIntegration", config, Succeed("Integration configured"))
  ELSE Goto(SubGeneratorPc[j], idx, <<>>)

WriteConfigModule ==
  /\ pc = "configure.writeConfig"
  /\ FileWrite(PathJoin(cwd, <<"src", "chitty.config.ts">>), ConfigContent(config),
               IntegrationFailed, AfterSubGenerator(0))
  /\ UNCHANGED <<nodeVersion, packageManager, config, answered, cwd, dirs, procs>>

\* setupDatabase
DatabaseEnv ==
  /\ pc = "database.env"
  /\ FileWrite(PathJoin(cwd, <<".env">>),
               [kind |-> "env", lines |-> <<"DATABASE_URL", "DIRECT_URL">>],
               IntegrationFailed, Goto("database.drizzle", idx, <<>>))
  /\ UNCHANGED <<nodeVersion, packageManager, config, answered, cwd, dirs, procs>>

DatabaseDrizzle ==
  /\ pc = "database.drizzle"
  /\ FileWrite(PathJoin(cwd, <<"drizzle.config.ts">>), [kind |-> "drizzle"],
               IntegrationFailed, AfterSubGenerator(1))
  /\ UNCHANGED <<nodeVersion, packageManager, config, answered, cwd, dirs, procs>>

\* setupAuthentication
AuthMkdir ==
  /\ pc = "auth.mkdir"
  /\ DirMake(PathJoin(cwd, <<"src", "auth">>), IntegrationFailed,
             Goto("auth.config", idx, <<>>))
  /\ UNCHANGED <<nodeVersion, packageManager, config, answered, cwd, files, procs>>

AuthConfig ==
  /\ pc = "auth.config"
  /\ FileWrite(PathJoin(cwd, <<"src", "auth", "config.ts">>), [kind |-> "auth"],
               IntegrationFailed, AfterSubGenerator(2))
  /\ UNCHANGED <<nodeVersion, packageManager, config, answered, cwd, dirs, procs>>

\* generateDockerConfig
DockerDockerfile ==
  /\ pc = "docker.dockerfile"
  /\ FileWrite(PathJoin(cwd, <<"Dockerfile">>), [kind |-> "dockerfile"],
               IntegrationFailed, Goto("docker.compose", idx, <<>>))
  /\ UNCHANGED <<nodeVersion, packageManager, config, answered, cwd, dirs, procs>>

DockerCompose ==
  /\ pc = "docker.compose"
  /\ FileWrite(PathJoin(cwd, <<"docker-compose.yml">>), [kind |-> "compose"],
               IntegrationFailed, AfterSubGenerator(3))
  /\ UNCHANGED <<nodeVersion, packageManager, config, answered, cwd, dirs, procs>>

(***************************************************************************)
(* finalizeInstallation                                                    *)
(***************************************************************************)
FinalizationFailed == StageFail("Finalization failed")

FinalizeInstall ==
  /\ pc = "finalize.install"
  /\ LET cmd == BulkInstallCmd(packageManager) IN
     /\ procs' = Exec(cmd)
     /\ \E ok \in BOOLEAN :
          IF ok
          THEN /\ dirs' = MkdirP(dirs, cwd \o <<"node_modules">>)
               /\ Goto("finalize.gitignore", idx, <<>>)
          ELSE /\ UNCHANGED dirs
               /\ Throw(FinalizationFailed, ExecError(cmd))
  /\ UNCHANGED <<nodeVersion, packageManager, config, answered, cwd, files>>

FinalizeGitignore ==
  /\ pc = "finalize.gitignore"
  /\ FileWrite(PathJoin(cwd, <<".gitignore">>), [kind |-> "gitignore"],
               FinalizationFailed, Goto("finalize.git", idx, <<>>))
  /\ UNCHANGED <<nodeVersion, packageManager, config, answered, cwd, dirs, procs>>

\* git init outside a try block: its failure leaves the stage as an error
FinalizeGitInitFatal ==
  /\ pc = "finalize.git"
  /\ procs' = Exec(<<"git", "init">>)
  /\ \E ok \in BOOLEAN :
       IF ok
       THEN /\ dirs' = MkdirP(dirs, cwd \o <<".git">>)
            /\ Return("finalizeInstallation", config, Succeed("Installation complete"))
       ELSE /\ UNCHANGED dirs
            /\ Throw(FinalizationFailed, ExecError(<<"git", "init">>))
  /\ UNCHANGED <<nodeVersion, packageManager, config, answered, cwd, files>>

FinalizeGitInit ==
  /\ pc = "finalize.git"
  /\ procs' = Exec(<<"git", "init">>)
  /\ \E ok \in BOOLEAN :
       IF ok
       THEN /\ dirs' = MkdirP(dirs, cwd \o <<".git">>)
            /\ Return("finalizeInstallation", config, Succeed("Installation complete"))
       ELSE /\ UNCHANGED dirs
            /\ Return("finalizeInstallation", config,
                      <<Line("console.warn", "Could not initialize git repository")>>
                        \o Succeed("Installation complete"))
  /\ UNCHANGED <<nodeVersion, packageManager, config, answered, cwd, files>>

(***************************************************************************)
(* showSuccessMessage                                                      *)
(***************************************************************************)
\* list.join(', ')
RECURSIVE Join(_)
Join(list) ==
  IF Len(list) = 0 THEN <<>>
  ELSE IF Len(list) = 1 THEN <<list[1]>>
  ELSE <<list[1], ", ">> \o Join(Tail(list))

\* a report that lists only the components that were installed without a warning
SuccessReportInstalledOnly(cfg, pm) ==
  LET installed == SelectSeq(AppsOrEmpty(cfg),
                             LAMBDA a : \A i \in Warnings : out[i].app # a)
  IN <<Line("console.log", "ChittyOS Standard Framework installed successfully!"),
       [ch |-> "console.log", text |-> "Project created:", name |-> cfg.projectName],
       Line("console.log", "Framework: ChittyOS Standard")>>
     \o (IF Len(installed) > 0
         THEN <<[ch |-> "console.log", text |-> "Installed apps:", apps |-> Join(installed)]>>
         ELSE <<>>)
     \o <<[ch |-> "console.log", text |-> "cd", name |-> cfg.projectName],
          [ch |-> "console.log", text |-> "run dev",
           cmd |-> IF pm = "yarn" THEN <<"yarn", "dev">> ELSE <<pm, "run", "dev">>]>>

SuccessReport(cfg, pm) ==
  <<Line("console.log", "ChittyOS Standard Framework installed successfully!"),
    [ch |-> "console.log", text |-> "Project created:", name |-> cfg.projectName],
    Line("console.log", "Framework: ChittyOS Standard")>>
  \o (IF Has(cfg, "apps") /\ Len(cfg.apps) > 0
      THEN <<[ch |-> "console.log", text |-> "Installed apps:", apps |-> Join(cfg.apps)]>>
      ELSE <<>>)
  \o <<[ch |-> "console.log", text |-> "cd", name |-> cfg.projectName],
       [ch |-> "console.log", text |-> "run dev",
        cmd |-> IF pm = "yarn" THEN <<"yarn", "dev">> ELSE <<pm, "run", "dev">>]>>

ShowSuccessMessage ==
  /\ pc = "showSuccessMessage"
  /\ pc' = "done"
  /\ out' = out \o SuccessReport(config, packageManager)
  /\ UNCHANGED <<nodeVersion, packageManager, config, answered, cwd, dirs, files,
                 procs, exitCode, stagesRun, idx, promptError, caught,
                 allDependenciesMet>>

Next ==
  \/ Run
  \/ DetectEnvironment
  \/ RejectProjectName
  \/ PromptConfiguration
  \/ CheckAccess
  \/ ConfirmOverwrite
  \/ RemoveExisting
  \/ CheckCatchBlock
  \/ InstallMkdir
  \/ InstallWriteManifest
  \/ InstallChdir
  \/ InstallShared
  \/ CopyTemplate
  \/ MkdirSrc
  \/ MkdirPublic
  \/ InstallApp
  \/ WriteConfigModule
  \/ DatabaseEnv
  \/ DatabaseDrizzle
  \/ AuthMkdir
  \/ AuthConfig
  \/ DockerDockerfile
  \/ DockerCompose
  \/ FinalizeInstall
  \/ FinalizeGitignore
  \/ FinalizeGitInit
  \/ ShowSuccessMessage

Spec == Init /\ [][Next]_vars

\* the run under the assumptions that every call returns, so that the
\* process takes its next step, and that the user does give a valid name
InitFair ==
  /\ InitCommon
  /\ nodeVersion \in {VersionString(m, 0, 0) : m \in PipelineMajors}
  /\ \E old \in BOOLEAN : InitFs({"vite.config.ts"}, old)

SpecFair == InitFair /\ [][Next]_vars /\ WF_vars(Next) /\ WF_vars(PromptConfiguration)

(***************************************************************************)
(* detectEnvironment alone, over the versions of the runtime.              *)
(***************************************************************************)
InitEnv ==
  /\ InitCommon
  /\ nodeVersion \in {VersionString(m, n, 0) : m \in 0..MaxMajor, n \in {0, 1}}
  /\ InitFs({"vite.config.ts"}, FALSE)

NextEnv ==
  \/ Run
  \/ DetectEnvironment

SpecEnv == InitEnv /\ [][NextEnv]_vars

(***************************************************************************)
(* check-dependencies.js: the standalone dependency checker.               *)
(***************************************************************************)
Requirement(major) == [op |-> ">=", major |-> major, minor |-> 0, patch |-> 0]

\* requiredDependencies, in the order Object.entries lists it
RequiredDependencies ==
  <<[name |-> "node", requirement |-> Requirement(18)],
    [name |-> "npm", requirement |-> Requirement(9)],
    [name |-> "git", requirement |-> Requirement(2)]>>

\* the versions of node the checker is run under
DepsNodeVersions ==
  {VersionString(16, 20, 2), VersionString(17, 9, 1), VersionString(18, 0, 0),
   VersionString(20, 11, 0), VersionString(100, 0, 0)}

Tool(found, text) == [found |-> found, text |-> text]

\* what execSync('npm -v') gives: no npm, or the text npm prints
NpmOutputs ==
  {Tool(FALSE, <<>>),
   Tool(TRUE, <<"8", ".", "1", "9", ".", "4", "\n">>),
   Tool(TRUE, <<"9", ".", "0", ".", "0", "\n">>),
   Tool(TRUE, <<"1", "0", ".", "2", ".", "3", "\n">>)}

\* what execSync('git --version') gives: no git, a text without a version,
\* or the text git prints
GitOutputs ==
  {Tool(FALSE, <<>>),
   Tool(TRUE, <<"g", "i", "t", " ", "?", "\n">>),
   Tool(TRUE, <<"g", "i", "t", " ", "1", ".", "9", ".", "5", "\n">>),
   Tool(TRUE, <<"g", "i", "t", " ", "2", ".", "3", "9", ".", "1", "\n">>)}

IsDigits(s) == Len(s) > 0 /\ \A i \in DOMAIN s : IsDigit(s[i])

\* the places of the two dots of a text of the form \d+\.\d+\.\d+
TripleDots(s) ==
  {d \in (DOMAIN s) \X (DOMAIN s) :
     /\ d[1] < d[2]
     /\ s[d[1]] = "." /\ s[d[2]] = "."
     /\ IsDigits(SubSeq(s, 1, d[1] - 1))
     /\ IsDigits(SubSeq(s, d[1] + 1, d[2] - 1))
     /\ IsDigits(SubSeq(s, d[2] + 1, Len(s)))}

IsTriple(s) == TripleDots(s) # {}

\* String.prototype.trim
RECURSIVE Trim(_)
Trim(s) ==
  IF Len(s) > 0 /\ s[1] \in {" ", "\n"} THEN Trim(Tail(s))
  ELSE IF Len(s) > 0 /\ s[Len(s)] \in {" ", "\n"} THEN Trim(SubSeq(s, 1, Len(s) - 1))
  ELSE s

\* text.match(/\d+\.\d+\.\d+/): the places where the pattern matches
MatchSpans(text) ==
  {m \in (DOMAIN text) \X (DOMAIN text) :
     m[1] <= m[2] /\ IsTriple(SubSeq(text, m[1], m[2]))}

\* ...[0]: the leftmost match, as long as it can be
FirstMatch(text) ==
  LET ms == MatchSpans(text)
      m == CHOOSE m \in ms :
             \A o \in ms : m[1] < o[1] \/ (m[1] = o[1] /\ m[2] >= o[2])
  IN SubSeq(text, m[1], m[2])

RECURSIVE NumberOf(_)
NumberOf(digits) ==
  IF Len(digits) = 0 THEN 0
  ELSE 10 * NumberOf(SubSeq(digits, 1, Len(digits) - 1))
       + (CHOOSE d \in 0..9 : DigitChar(d) = digits[Len(digits)])

\* a version text v<major>.<minor>.<patch> is one semver can parse
SemverValid(version) ==
  /\ Len(version) > 0
  /\ version[1] = "v"
  /\ IsTriple(Tail(version))

SemverParse(version) ==
  LET s == Tail(version)
      d == CHOOSE d \in TripleDots(s) : TRUE
  IN [major |-> NumberOf(SubSeq(s, 1, d[1] - 1)),
      minor |-> NumberOf(SubSeq(s, d[1] + 1, d[2] - 1)),
      patch |-> NumberOf(SubSeq(s, d[2] + 1, Len(s)))]

\* semver.satisfies(version, '>=x.y.z')
Satisfies(version, req) ==
  /\ SemverValid(version)
  /\ LET v == SemverParse(version) IN
     \/ v.major > req.major
     \/ v.major = req.major /\ v.minor > req.minor
     \/ v.major = req.major /\ v.minor = req.minor /\ v.patch >= req.patch

\* the version checkDependency reads for a tool: the switch of lines 17-32;
\* read is FALSE when a statement of it throws
ReadVersion(name, tool) ==
  CASE name = "node" -> [read |-> TRUE, version |-> nodeVersion]
    [] name = "npm" ->
         IF tool.found THEN [read |-> TRUE, version |-> <<"v">> \o Trim(tool.text)]
         ELSE [read |-> FALSE, version |-> <<>>]
    [] name = "git" ->
         IF tool.found /\ MatchSpans(tool.text) # {}
         THEN [read |-> TRUE, version |-> <<"v">> \o FirstMatch(tool.text)]
         ELSE [read |-> FALSE, version |-> <<>>]

\* what checkDependency prints and returns
DependencyLine(name, text, version) ==
  [ch |-> "console.log", text |-> text, name |-> name, version |-> version]

CheckResult(name, req, tool) ==
  LET r == ReadVersion(name, tool) IN
  IF ~r.read THEN [line |-> DependencyLine(name, "not found", <<>>), met |-> FALSE]
  ELSE IF Satisfies(r.version, req)
       THEN [line |-> DependencyLine(name, "ok", r.version), met |-> TRUE]
       ELSE [line |-> DependencyLine(name, "requires", r.version), met |-> FALSE]

\* the flag follows the last tool checked
AfterCheckLast(met, result) == result

\* if (!checkDependency(name, requirement)) allDependenciesMet = false
AfterCheck(met, result) == IF ~result THEN FALSE ELSE met

ToolOutputs(name) ==
  CASE name = "node" -> {Tool(TRUE, <<>>)}
    [] name = "npm" -> NpmOutputs
    [] name = "git" -> GitOutputs

DepsCommands(name) ==
  CASE name = "node" -> <<>>
    [] name = "npm" -> <<[cmd |-> <<"npm", "-v">>, cwd |-> cwd]>>
    [] name = "git" -> <<[cmd |-> <<"git", "--version">>, cwd |-> cwd]>>

DepsStart ==
  /\ pc = "deps.start"
  /\ out' = Append(out, Line("console.log", "Checking ChittyOS Standard dependencies..."))
  /\ allDependenciesMet' = TRUE
  /\ idx' = 1
  /\ pc' = "deps.loop"
  /\ UNCHANGED <<nodeVersion, packageManager, config, answered, cwd, dirs, files,
                 procs, exitCode, stagesRun, promptError, caught>>

\* one turn of the loop over requiredDependencies
CheckDependency ==
  /\ pc = "deps.loop"
  /\ LET dep == RequiredDependencies[idx] IN
     \E tool \in ToolOutputs(dep.name) :
       LET res == CheckResult(dep.name, dep.requirement, tool) IN
       /\ procs' = procs \o DepsCommands(dep.name)
       /\ out' = Append(out, res.line)
       /\ allDependenciesMet' = AfterCheck(allDependenciesMet, res.met)
  /\ IF idx < Len(RequiredDependencies)
     THEN idx' = idx + 1 /\ UNCHANGED pc
     ELSE idx' = idx /\ pc' = "deps.exit"
  /\ UNCHANGED <<nodeVersion, packageManager, config, answered, cwd, dirs, files,
                 exitCode, stagesRun, promptError, caught>>

DepsExit ==
  /\ pc = "deps.exit"
  /\ IF allDependenciesMet
     THEN /\ out' = Append(out, Line("console.log", "All dependencies are satisfied!"))
          /\ exitCode' = 0
     ELSE /\ out' = out \o <<Line("console.log", "Some dependencies are missing or outdated."),
                              Line("console.log", "Please install the required dependencies and try again.")>>
          /\ exitCode' = 1
  /\ pc' = "exited"
  /\ UNCHANGED <<nodeVersion, packageManager, config, answered, cwd, dirs, files,
                 procs, stagesRun, idx, promptError, caught, allDependenciesMet>>

InitDeps ==
  /\ pc = "deps.start"
  /\ nodeVersion \in DepsNodeVersions
  /\ packageManager = "npm"
  /\ config = EmptyObject
  /\ answered = <<>>
  /\ cwd = InitialCwd
  /\ procs = <<>>
  /\ out = <<>>
  /\ exitCode = 0
  /\ stagesRun = <<>>
  /\ idx = 1
  /\ promptError = "none"
  /\ caught = NoError
  /\ allDependenciesMet = TRUE
  /\ InitFs({}, FALSE)

NextDeps ==
  \/ DepsStart
  \/ CheckDependency
  \/ DepsExit

SpecDeps == InitDeps /\ [][NextDeps]_vars

(***************************************************************************)
(* What a state shows of the run so far.                                   *)
(***************************************************************************)
Asked(name) == \E i \in DOMAIN answered : answered[i].name = name

AnswerTo(name) == answered[CHOOSE i \in DOMAIN answered : answered[i].name = name].value

Started(stage) == stage \in Range(stagesRun)

Tier(type) == Has(config, "installationType") /\ config.installationType = type

\* <cwd>/<projectName>, from the working directory the run started in
TargetDir == PathJoin(InitialCwd, <<config.projectName>>)

UnderTarget(p) == IsPrefix(TargetDir, p)

Declined == Asked("overwrite") /\ AnswerTo("overwrite") = FALSE

Accepted == Asked("overwrite") /\ AnswerTo("overwrite") = TRUE

\* the components the package manager was asked to install, in order
AppInstalls ==
  LET runs == SelectSeq(procs, LAMBDA r : Includes(r.cmd, "@chittyapps/"))
  IN [i \in DOMAIN runs |-> runs[i].cmd[Len(runs[i].cmd)]]

\* the array a JSON text of strings stands for
JsonParse(text) == SelectSeq(text, LAMBDA t : t \notin {"[", "]", ",", "\""})

ConfigModulePath == TargetDir \o <<"src", "chitty.config.ts">>

ConfigModuleWritten ==
  /\ Has(config, "projectName")
  /\ ConfigModulePath \in DOMAIN files
  /\ files[ConfigModulePath].kind = "chittyConfig"

SubGeneratorSteps ==
  <<{"database.env", "database.drizzle"}, {"auth.mkdir", "auth.config"},
    {"docker.dockerfile", "docker.compose"}>>

SubGeneratorFiles ==
  <<{<<".env">>, <<"drizzle.config.ts">>}, {<<"src", "auth", "config.ts">>},
    {<<"Dockerfile">>, <<"docker-compose.yml">>}>>

\* the last thing the run printed is the error of the given failed call
DiedOf(op) ==
  /\ pc = "exited"
  /\ Includes(out[Len(out)].message, op)

(***************************************************************************)
(* C1: if the target directory exists and the user declines to overwrite   *)
(* it, the run ends there: installFramework and the later stages are not   *)
(* run, nothing is created or written under the target directory and no    *)
(* subprocess is started.                                                  *)
(***************************************************************************)
C1_DeclineStopsPipeline ==
  Declined =>
    /\ \A i \in DOMAIN stagesRun : StageIndex(stagesRun[i]) <= 3
    /\ procs = <<>>
    /\ \A p \in DOMAIN files :
         UnderTarget(p) => p \in OldFiles /\ files[p] = OldContent[p]
    /\ {d \in dirs : UnderTarget(d)} = {OldProject}

(***************************************************************************)
(* C2 as stated: under the minimal tier none of the three sub-generators   *)
(* runs, whatever the toggles, and the component list is empty.            *)
(***************************************************************************)
C2_MinimalSkipsSubGenerators ==
  Tier("minimal") =>
    /\ \A k \in DOMAIN SubGeneratorSteps : pc \notin SubGeneratorSteps[k]
    /\ config.apps = <<>>

(***************************************************************************)
(* C2 as amended: under the minimal tier the component list is empty, in   *)
(* the config and in the config module, and no component install is        *)
(* attempted; a sub-generator runs only when its own toggle was answered   *)
(* with yes, and when configureIntegration has returned every              *)
(* sub-generator whose toggle was yes has written its files.               *)
(***************************************************************************)
C2_MinimalRunsToggledSubGenerators ==
  Tier("minimal") =>
    /\ Has(config, "apps") /\ config.apps = <<>>
    /\ AppInstalls = <<>>
    /\ ConfigModuleWritten => JsonParse(files[ConfigModulePath].apps) = <<>>
    /\ \A k \in DOMAIN SubGenerators :
         /\ pc \in SubGeneratorSteps[k] => AnswerTo(SubGenerators[k]) = TRUE
         /\ Started("finalizeInstallation") /\ AnswerTo(SubGenerators[k]) = TRUE
              => \A f \in SubGeneratorFiles[k] : TargetDir \o f \in DOMAIN files

\* a minimal run in which the database sub-generator has run
C2_Witness ==
  /\ Tier("minimal")
  /\ Started("finalizeInstallation")
  /\ AnswerTo("includeDatabase") = TRUE
  /\ AnswerTo("includeDocker") = FALSE
  /\ TargetDir \o <<".env">> \in DOMAIN files

(***************************************************************************)
(* C3: detectEnvironment fails exactly when the major version of the       *)
(* runtime is below 18.                                                    *)
(***************************************************************************)
RECURSIVE DecimalValue(_)
DecimalValue(digits) ==
  IF Len(digits) = 0 THEN 0
  ELSE 10 * DecimalValue(SubSeq(digits, 1, Len(digits) - 1))
       + (CHOOSE d \in 0..9 : DigitChar(d) = digits[Len(digits)])

\* the major version a version string v<major>.<minor>.<patch> names
MajorOf(v) ==
  LET dot == CHOOSE i \in DOMAIN v : v[i] = "." /\ \A j \in 1..(i-1) : v[j] # "."
  IN DecimalValue(SubSeq(v, 2, dot - 1))

C3_FailsIffBelow18 ==
  pc \notin {"run", "detectEnvironment"} =>
    (pc = "exited" <=> MajorOf(nodeVersion) < 18)

TierTable(type) ==
  CASE type = "minimal" -> <<>>
    [] type = "standard" -> <<"chittyresolution", "chittychronicle">>
    [] type = "full" -> <<"chittyresolution", "chittychronicle", "chittyevidence",
                          "chittyflow", "chittyintel", "chittytrace", "chittycloude-mcp">>

C5_TierFixesComponents ==
  \A type \in {"minimal", "standard", "full"} :
    Tier(type) => /\ Has(config, "apps")
                  /\ config.apps = TierTable(type)
                  /\ ~Asked("apps")

C5_Witness ==
  /\ Tier("standard")
  /\ pc = "configure.writeConfig"
  /\ AppInstalls = TierTable("standard")

(***************************************************************************)
(* C6: the component question is asked exactly when the tier is custom,    *)
(* and then the component list of the config, the components installed     *)
(* and the apps array of the config module are the answer to it, element   *)
(* by element and in its order.                                            *)
(***************************************************************************)
C6_CustomKeepsSelection ==
  Has(config, "installationType") =>
    /\ Asked("apps") <=> Tier("custom")
    /\ Tier("custom") =>
         /\ Has(config, "apps") /\ config.apps = AnswerTo("apps")
         /\ pc = "configure.writeConfig" => AppInstalls = AnswerTo("apps")
         /\ ConfigModuleWritten =>
              JsonParse(files[ConfigModulePath].apps) = AnswerTo("apps")

\* a selection of two components that are not the default ones
C6_Witness ==
  /\ Tier("custom")
  /\ ConfigModuleWritten
  /\ AnswerTo("apps") = <<"chittyevidence", "chittycloude-mcp">>

(***************************************************************************)
(* C7: the features object of the config module holds the three toggles    *)
(* as they were answered, whatever the tier, the components and the        *)
(* component installs that failed.                                         *)
(***************************************************************************)
C7_FeaturesEqualToggles ==
  ConfigModuleWritten =>
    LET f == files[ConfigModulePath].features IN
    /\ {f.database, f.authentication, f.docker} \subseteq {"true", "false"}
    /\ (f.database = "true") <=> AnswerTo("includeDatabase")
    /\ (f.authentication = "true") <=> AnswerTo("includeAuth")
    /\ (f.docker = "true") <=> AnswerTo("includeDocker")

C7_Witness ==
  /\ ConfigModuleWritten
  /\ Warnings # {}
  /\ AnswerTo("includeDatabase") = TRUE
  /\ AnswerTo("includeAuth") = FALSE
  /\ AnswerTo("includeDocker") = TRUE

(***************************************************************************)
(* C8: a component that cannot be installed never ends the run: the        *)
(* components are attempted one by one in list order, all of them before   *)
(* the config module is written, the stage goes on to the config module    *)
(* and to finalizeInstallation, and the run that ends with the success     *)
(* report has exit code 0.                                                 *)
(***************************************************************************)
C8_ComponentFailureIsNotFatal ==
  /\ pc = "exited" => ~Includes(out[Len(out)].message, "@chittyapps/")
  /\ pc = "configure.install" => AppInstalls = SubSeq(config.apps, 1, idx - 1)
  /\ Started("configureIntegration") /\ pc # "configure.install" =>
       AppInstalls = config.apps
  /\ Warnings # {} /\ Started("finalizeInstallation") => ConfigModuleWritten
  /\ Warnings # {} /\ pc = "done" =>
       /\ exitCode = 0
       /\ \E i \in DOMAIN out : out[i].text = "ChittyOS Standard Framework installed successfully!"

\* the first of several components failed and the run ended with the report
C8_Witness ==
  /\ pc = "done"
  /\ exitCode = 0
  /\ Len(config.apps) > 1
  /\ \E i \in Warnings : out[i].app = config.apps[1]

(***************************************************************************)
(* C9: in the copy loop of setupSharedDependencies a template that is      *)
(* absent is passed over and the loop goes on; a template that is present  *)
(* is in the target directory under its name with its content; an error    *)
(* other than ENOENT ends the run with exit code 1 and no later template   *)
(* is copied.                                                              *)
(***************************************************************************)
TemplatePresent(f) == TemplatesPath \o <<f>> \in DOMAIN files

IsCopy(f) ==
  /\ TargetDir \o <<f>> \in DOMAIN files
  /\ files[TargetDir \o <<f>>] = files[TemplatesPath \o <<f>>]

HoldsTemplate(f) ==
  /\ TargetDir \o <<f>> \in DOMAIN files
  /\ files[TargetDir \o <<f>>].kind = "template"

\* the loop is past its i-th file
CopyPassed(i) == (pc = "shared.copy" \/ DiedOf("copyfile")) => i < idx

C9_TemplateCopyPolicy ==
  Started("setupSharedDependencies") =>
    /\ \A i \in DOMAIN FilesToCopy :
         LET f == FilesToCopy[i] IN
         IF CopyPassed(i)
         THEN IF TemplatePresent(f) THEN IsCopy(f) ELSE ~HoldsTemplate(f)
         ELSE ~HoldsTemplate(f)
    /\ DiedOf("copyfile") =>
         /\ exitCode = 1
         /\ out[Len(out)].message[1] # "ENOENT"

\* the loop is over: the one template there is was copied, the others passed over
C9_Witness ==
  /\ pc = "shared.mkdirSrc"
  /\ IsCopy("vite.config.ts")
  /\ ~TemplatePresent("tsconfig.json")
  /\ ~TemplatePresent(".prettierrc")

(***************************************************************************)
(* C10: the stages run in the order of run(), each at most once; the step  *)
(* in progress belongs to the stage called last; a stage is called only    *)
(* when every stage before it has completed and nothing has failed.        *)
(***************************************************************************)
StepsOf(stage) ==
  CASE stage = "detectEnvironment" -> {"detectEnvironment"}
    [] stage = "promptConfiguration" -> {"promptConfiguration"}
    [] stage = "checkExistingInstallation" -> {"check.access", "check.confirm", "check.rm", "check.catch"}
    [] stage = "installFramework" ->
         {"install.mkdir", "install.writeFile", "install.chdir", "install.exec"}
    [] stage = "setupSharedDependencies" ->
         {"shared.copy", "shared.mkdirSrc", "shared.mkdirPublic"}
    [] stage = "configureIntegration" ->
         {"configure.install", "configure.writeConfig"}
           \cup UNION {SubGeneratorSteps[k] : k \in DOMAIN SubGeneratorSteps}
    [] stage = "finalizeInstallation" ->
         {"finalize.install", "finalize.gitignore", "finalize.git"}
    [] stage = "showSuccessMessage" -> {"showSuccessMessage"}

CompletionText(stage) ==
  CASE stage = "detectEnvironment" -> "Environment detected"
    [] stage = "checkExistingInstallation" -> "Ready to install"
    [] stage = "installFramework" -> "Framework installed"
    [] stage = "setupSharedDependencies" -> "Shared dependencies configured"
    [] stage = "configureIntegration" -> "Integration configured"
    [] stage = "finalizeInstallation" -> "Installation complete"
    [] OTHER -> "none"

Completed(stage) ==
  IF stage = "promptConfiguration" THEN Has(config, "projectName")
  ELSE Cardinality({i \in DOMAIN out : out[i].ch = "spinner.succeed"
                                        /\ out[i].text = CompletionText(stage)}) = 1

C10_StagesInOrder ==
  /\ stagesRun = SubSeq(Stages, 1, Len(stagesRun))
  /\ pc \notin {"run", "done", "exited"} => pc \in StepsOf(stagesRun[Len(stagesRun)])
  /\ \A k \in 1..(Len(stagesRun) - 1) : Completed(stagesRun[k])
  /\ pc # "exited" =>
       /\ exitCode = 0
       /\ \A i \in DOMAIN out : out[i].ch # "spinner.fail"

C10_Witness ==
  /\ pc = "done"
  /\ stagesRun = Stages

(***************************************************************************)
(* C11: the process exits with code 1 exactly when a stage threw an error  *)
(* that reached the handler of run(); the error is then the last thing     *)
(* printed, no later stage was entered and the success report is never     *)
(* printed; a run that ends without such an error prints the success       *)
(* report and its exit code is not 1.                                      *)
(***************************************************************************)
Printed(text) == \E i \in DOMAIN out : out[i].text = text

FatalPrinted == Printed("Installation failed")

ReportPrinted == Printed("ChittyOS Standard Framework installed successfully!")

C11_ExitOneIffFatalFailure ==
  /\ exitCode \in {0, 1}
  /\ FatalPrinted <=> exitCode = 1
  /\ FatalPrinted <=> pc = "exited"
  /\ pc = "exited" =>
       /\ out[Len(out)].ch = "console.error"
       /\ out[Len(out) - 1].text = "Installation failed"
       /\ ~ReportPrinted
       /\ ~Started("showSuccessMessage")
  /\ pc = "done" =>
       /\ ReportPrinted
       /\ exitCode = 0
       /\ stagesRun = Stages

\* the bulk dependency install failed and the run ended with exit code 1
C11_Witness ==
  /\ pc = "exited"
  /\ exitCode = 1
  /\ Printed("Finalization failed")
  /\ DiedOf("failed:")

(***************************************************************************)
(* C12: when git init fails in finalizeInstallation the stage still        *)
(* completes with a warning, the run goes on to the success report and     *)
(* does not exit with 1; when the bulk dependency install before it fails  *)
(* the run ends with exit code 1, .gitignore is not written and git init   *)
(* is not started.                                                         *)
(***************************************************************************)
Ran(cmd) == \E i \in DOMAIN procs : procs[i].cmd = cmd

\* git init was started and left no repository behind
GitInitFailed ==
  /\ Ran(<<"git", "init">>)
  /\ TargetDir \o <<".git">> \notin dirs

\* the bulk install is the call the run died of
BulkInstallFailed ==
  /\ Printed("Finalization failed")
  /\ DiedOf("failed:")

C12_GitInitFailureIsNotFatal ==
  /\ GitInitFailed =>
       /\ pc \in {"showSuccessMessage", "done"}
       /\ exitCode = 0
       /\ Printed("Could not initialize git repository")
       /\ Completed("finalizeInstallation")
       /\ pc = "done" => ReportPrinted
  /\ BulkInstallFailed =>
       /\ exitCode = 1
       /\ Ran(BulkInstallCmd(packageManager))
       /\ TargetDir \o <<".gitignore">> \notin DOMAIN files
       /\ ~Ran(<<"git", "init">>)

\* git init failed and the run ended with the success report
C12_Witness ==
  /\ GitInitFailed
  /\ pc = "done"
  /\ ReportPrinted

(***************************************************************************)
(* C13: after a run that ended with the success report, into a target      *)
(* directory that did not exist before, each optional artifact exists      *)
(* exactly when its toggle was answered with yes: .env and                 *)
(* drizzle.config.ts with includeDatabase, src/auth and src/auth/config.ts *)
(* with includeAuth, Dockerfile and docker-compose.yml with includeDocker. *)
(* The standard tier with (yes, no, no) gives the apps chittyresolution    *)
(* and chittychronicle, a .env of two lines, no src/auth and no            *)
(* Dockerfile.                                                             *)
(***************************************************************************)
FreshSuccess == pc = "done" /\ ~Asked("overwrite")

FileAt(rel) == TargetDir \o rel \in DOMAIN files

DirAt(rel) == TargetDir \o rel \in dirs

StandardScenario ==
  /\ AnswerTo("installationType") = "standard"
  /\ AnswerTo("includeDatabase")
  /\ ~AnswerTo("includeAuth")
  /\ ~AnswerTo("includeDocker")

C13_ArtifactsIffToggles ==
  FreshSuccess =>
    /\ FileAt(<<".env">>) <=> AnswerTo("includeDatabase")
    /\ FileAt(<<"drizzle.config.ts">>) <=> AnswerTo("includeDatabase")
    /\ FileAt(<<"src", "auth", "config.ts">>) <=> AnswerTo("includeAuth")
    /\ DirAt(<<"src", "auth">>) <=> AnswerTo("includeAuth")
    /\ FileAt(<<"Dockerfile">>) <=> AnswerTo("includeDocker")
    /\ FileAt(<<"docker-compose.yml">>) <=> AnswerTo("includeDocker")
    /\ StandardScenario =>
         /\ config.apps = <<"chittyresolution", "chittychronicle">>
         /\ FileAt(<<".env">>)
         /\ Len(files[TargetDir \o <<".env">>].lines) = 2
         /\ ~DirAt(<<"src", "auth">>)
         /\ ~FileAt(<<"Dockerfile">>)

\* the example of the standard tier with the database alone
C13_Witness ==
  /\ FreshSuccess
  /\ StandardScenario
  /\ config.projectName = "demo"
  /\ FileAt(<<".env">>)

(***************************************************************************)
(* C14: every run of the dependency checker evaluates node, npm and git,   *)
(* in this order and whatever the earlier results, and exits with code 0   *)
(* exactly when each of the three was found with a version at or above its *)
(* minimum (18, 9, 2); a tool that is not found, or whose version cannot   *)
(* be read, fails and the exit code is 1.                                  *)
(***************************************************************************)
DepLines == SelectSeq(out, LAMBDA l : l.text \in {"ok", "requires", "not found"})

MinMajors == <<18, 9, 2>>

\* the i-th tool was found with a version that meets its minimum
Meets(i) ==
  /\ DepLines[i].version # <<>>
  /\ MajorOf(DepLines[i].version) >= MinMajors[i]

C14_ChecksAllAndExitsZeroIffAllMet ==
  /\ pc \in {"deps.exit", "exited"} =>
       /\ Len(DepLines) = 3
       /\ [i \in 1..3 |-> DepLines[i].name] = <<"node", "npm", "git">>
       /\ Ran(<<"npm", "-v">>) /\ Ran(<<"git", "--version">>)
       /\ \A i \in 1..3 :
            /\ DepLines[i].text = "ok" <=> Meets(i)
            /\ DepLines[i].text = "not found" <=> DepLines[i].version = <<>>
  /\ pc = "exited" =>
       /\ exitCode \in {0, 1}
       /\ exitCode = 0 <=> \A i \in 1..3 : Meets(i)
       /\ (\E i \in 1..3 : DepLines[i].text = "not found") => exitCode = 1

\* node is too old, npm and git are checked all the same and pass, and the
\* exit code is 1
C14_Witness ==
  /\ pc = "exited"
  /\ exitCode = 1
  /\ ~Meets(1) /\ Meets(2) /\ Meets(3)

(***************************************************************************)
(* C15 as stated: whatever the user types that fails the validation        *)
(* predicate, the empty text included, is rejected by the project-name     *)
(* question and never makes it into an accepted answer.                    *)
(***************************************************************************)
ProjectNameAnswers == SelectSeq(answered, LAMBDA a : a.name = "projectName")

C15_InvalidInputRejected ==
  \A i \in DOMAIN ProjectNameAnswers : ValidForNewPackages(ProjectNameAnswers[i].input)

(***************************************************************************)
(* C15: the project name of the config always passes the validation        *)
(* predicate, so checkExistingInstallation and the later stages never see  *)
(* one that fails it; a typed name that fails it (uppercase letters) is    *)
(* rejected with a message and the question stays open, with no change to  *)
(* the config; an empty input is not rejected: it stands for the default   *)
(* my-chittyapp, which is accepted.                                        *)
(***************************************************************************)
C15_InvalidNameNeverAccepted ==
  /\ Has(config, "projectName") => ValidForNewPackages(config.projectName)
  /\ Started("checkExistingInstallation") =>
       /\ Has(config, "projectName")
       /\ Asked("projectName")
  /\ \A i \in DOMAIN ProjectNameAnswers :
       LET a == ProjectNameAnswers[i] IN
       /\ a.value = config.projectName
       /\ a.input # "MyApp"
       /\ a.input = "" => a.value = "my-chittyapp"
       /\ a.input # "" => a.value = a.input
  /\ promptError # "none" =>
       /\ pc = "promptConfiguration"
       /\ config = EmptyObject
       /\ answered = <<>>
       /\ ~Started("checkExistingInstallation")

\* a name was rejected and the question is open again
C15_Witness ==
  /\ promptError = "Invalid project name"
  /\ pc = "promptConfiguration"
  /\ ~Has(config, "projectName")

(***************************************************************************)
(* C16: in checkExistingInstallation an error of the filesystem other      *)
(* than not-found (permission denied on the existence check or on the      *)
(* removal) is taken neither for absence nor for cancellation: the catch   *)
(* block that holds it ends the run with exit code 1, before               *)
(* installFramework.                                                       *)
(***************************************************************************)
GenuineFsError(error) == error.code \notin {"ENOENT", "undefined", "none"}

C16_GenuineErrorAborts ==
  [][(pc = "check.catch" /\ GenuineFsError(caught))
       => (pc' = "exited" /\ exitCode' = 1 /\ ~Started("installFramework")')]_vars

(***************************************************************************)
(* C17: the working directory changes once in a run, in installFramework,  *)
(* from the directory the run started in to <initial cwd>/<projectName>,   *)
(* after the manifest is written and before any package is installed; in   *)
(* every step of setupSharedDependencies, configureIntegration and         *)
(* finalizeInstallation it is the target directory, and every file and     *)
(* directory the run has made lies under the target directory.             *)
(***************************************************************************)
InitialDirs == {InitialCwd, <<"pkg">>, ScriptDir, TemplatesPath, OldProject}

\* a path that was there before the run
Preexisting(p) == IsPrefix(TemplatesPath, p) \/ IsPrefix(OldProject, p)

BeforeChdir ==
  {"run", "detectEnvironment", "promptConfiguration", "check.access", "check.confirm",
   "check.rm", "check.catch", "install.mkdir", "install.writeFile", "install.chdir"}

AfterChdirStages ==
  {"setupSharedDependencies", "configureIntegration", "finalizeInstallation"}

CwdInTarget ==
  /\ pc \in BeforeChdir => cwd = InitialCwd
  /\ \A stage \in AfterChdirStages : pc \in StepsOf(stage) => cwd = TargetDir
  /\ \A p \in DOMAIN files : Preexisting(p) \/ UnderTarget(p)
  /\ \A d \in dirs : d \in InitialDirs \/ UnderTarget(d)

CwdChangesInInstallFramework ==
  cwd' # cwd =>
    /\ pc = "install.chdir"
    /\ cwd = InitialCwd
    /\ cwd' = TargetDir
    /\ cwd' # InitialCwd
    /\ TargetDir \o <<"package.json">> \in DOMAIN files
    /\ procs = <<>>

C17_CwdChangesOnce == []CwdInTarget /\ [][CwdChangesInInstallFramework]_vars

\* the last file of the run was written under the target directory
C17_Witness ==
  /\ pc = "done"
  /\ cwd = TargetDir
  /\ cwd # InitialCwd
  /\ FileAt(<<".gitignore">>)

(***************************************************************************)
(* C18: configureIntegration works in a fixed order: every component       *)
(* install is attempted, then the config module is written, then the       *)
(* database, the authentication and the container sub-generators run; a    *)
(* sub-generator runs only once the config module is written, and a write  *)
(* that fails ends the run: no later step of the stage has left anything   *)
(* and finalizeInstallation is not entered.                                *)
(***************************************************************************)
\* the files of the k-th sub-generator are all there / all missing
Generated(k) == \A f \in SubGeneratorFiles[k] : FileAt(f)

NotGenerated(k) == \A f \in SubGeneratorFiles[k] : ~FileAt(f)

\* the path named by the error the run died of
FailedPath == SubSeq(out[Len(out)].message, 3, Len(out[Len(out)].message))

\* the step of the stage the failed call belongs to: 0 is the write of the
\* config module, k the k-th sub-generator
FailedStep ==
  IF FailedPath = ConfigModulePath THEN 0
  ELSE CHOOSE k \in DOMAIN SubGenerators :
         \E f \in SubGeneratorFiles[k] \cup {<<"src", "auth">>} : FailedPath = TargetDir \o f

IntegrationDied == pc = "exited" /\ Printed("Integration configuration failed")

C18_ConfigureIntegrationOrder ==
  /\ pc = "configure.writeConfig" =>
       /\ AppInstalls = AppsOrEmpty(config)
       /\ \A k \in DOMAIN SubGenerators : NotGenerated(k)
  /\ \A k \in DOMAIN SubGenerators :
       pc \in SubGeneratorSteps[k] =>
         /\ ConfigModuleWritten
         /\ AppInstalls = AppsOrEmpty(config)
         /\ \A j \in 1..(k-1) : AnswerTo(SubGenerators[j]) => Generated(j)
         /\ \A j \in (k+1)..Len(SubGenerators) : NotGenerated(j)
  /\ IntegrationDied =>
       /\ exitCode = 1
       /\ FailedPath \notin DOMAIN files
       /\ \A j \in (FailedStep + 1)..Len(SubGenerators) : NotGenerated(j)
       /\ ~Started("finalizeInstallation")
       /\ ~Ran(BulkInstallCmd(packageManager))
       /\ ~FileAt(<<".gitignore">>)

\* the write of .env failed after the config module was written: nothing of
\* the later sub-generators is there
C18_Witness ==
  /\ IntegrationDied
  /\ FailedPath = TargetDir \o <<".env">>
  /\ ConfigModuleWritten
  /\ AnswerTo("includeAuth") /\ AnswerTo("includeDocker")
  /\ NotGenerated(2) /\ NotGenerated(3)

(***************************************************************************)
(* C19: a fatal failure rolls nothing back: the step that ends the run     *)
(* leaves every directory and file as it found them, and so does the       *)
(* handler of run(); at exit the target directory and the manifest of a    *)
(* completed installFramework, the copied templates, src and public of a   *)
(* completed setupSharedDependencies, and the config module and the        *)
(* sub-generator files of a completed configureIntegration are all there.  *)
(***************************************************************************)
ArtifactsKept ==
  pc = "exited" =>
    /\ Completed("installFramework") =>
         /\ TargetDir \in dirs
         /\ FileAt(<<"package.json">>)
         /\ files[TargetDir \o <<"package.json">>].kind = "manifest"
         /\ cwd = TargetDir
    /\ Completed("setupSharedDependencies") =>
         /\ DirAt(<<"src">>) /\ DirAt(<<"public">>)
         /\ \A i \in DOMAIN FilesToCopy :
              TemplatePresent(FilesToCopy[i]) => IsCopy(FilesToCopy[i])
    /\ DiedOf("copyfile") =>
         \A i \in 1..(idx - 1) : TemplatePresent(FilesToCopy[i]) => IsCopy(FilesToCopy[i])
    /\ IntegrationDied /\ FailedStep > 0 =>
         /\ ConfigModuleWritten
         /\ \A j \in 1..(FailedStep - 1) : AnswerTo(SubGenerators[j]) => Generated(j)
    /\ Completed("configureIntegration") =>
         /\ ConfigModuleWritten
         /\ \A k \in DOMAIN SubGenerators : AnswerTo(SubGenerators[k]) => Generated(k)

ExitKeepsFilesystem ==
  pc' = "exited" => dirs' = dirs /\ files' = files /\ cwd' = cwd

C19_NoRollback == []ArtifactsKept /\ [][ExitKeepsFilesystem]_vars

\* the bulk install failed at the end: all that the stages made is there
C19_Witness ==
  /\ BulkInstallFailed
  /\ Completed("configureIntegration")
  /\ ConfigModuleWritten
  /\ AnswerTo("includeDatabase") /\ Generated(1)
  /\ FileAt(<<"package.json">>)

(***************************************************************************)
(* C20: once promptConfiguration has returned, the config (project name,   *)
(* tier, component list, the three flags) is never changed again: no step  *)
(* of a later stage assigns it and its fields stay what the answers made   *)
(* them; the package manager is never changed after detectEnvironment.     *)
(***************************************************************************)
ConfigIsAnswers ==
  Has(config, "projectName") =>
    /\ DOMAIN config = {"projectName", "installationType", "apps", "includeDatabase",
                        "includeAuth", "includeDocker"}
    /\ config.projectName = AnswerTo("projectName")
    /\ config.installationType = AnswerTo("installationType")
    /\ config.apps = IF AnswerTo("installationType") = "custom" THEN AnswerTo("apps")
                     ELSE TierTable(AnswerTo("installationType"))
    /\ \A k \in DOMAIN SubGenerators : config[SubGenerators[k]] = AnswerTo(SubGenerators[k])

ConfigFixed ==
  /\ Has(config, "projectName") => config' = config
  /\ pc \notin {"run", "detectEnvironment"} => packageManager' = packageManager

C20_ConfigFixedAfterPrompt == []ConfigIsAnswers /\ [][ConfigFixed]_vars

\* a run with components, one of which failed to install, under yarn
C20_Witness ==
  /\ pc = "done"
  /\ packageManager = "yarn"
  /\ Len(config.apps) > 1
  /\ Warnings # {}

(***************************************************************************)
(* C21: if every call returns and the user ends up giving a valid project  *)
(* name, every run ends in one of two states that exclude each other: the  *)
(* success report is printed and the exit code is not 1, or the process    *)
(* has exited with code 1; nothing happens after either. Every step but    *)
(* the rejection of a project name moves the run forward, to a later step  *)
(* of the pipeline or to the next turn of a loop over a fixed list, so the *)
(* re-prompt is the only loop without a bound.                             *)
(***************************************************************************)
StepOrder ==
  <<"run", "detectEnvironment", "promptConfiguration", "check.access", "check.confirm",
    "check.rm", "check.catch", "install.mkdir", "install.writeFile", "install.chdir",
    "install.exec", "shared.copy", "shared.mkdirSrc", "shared.mkdirPublic",
    "configure.install", "configure.writeConfig", "database.env", "database.drizzle",
    "auth.mkdir", "auth.config", "docker.dockerfile", "docker.compose",
    "finalize.install", "finalize.gitignore", "finalize.git", "showSuccessMessage",
    "done", "exited">>

Rank(step) == CHOOSE i \in DOMAIN StepOrder : StepOrder[i] = step

Terminal == pc \in {"done", "exited"}

TerminalStates ==
  /\ pc \in Range(StepOrder)
  /\ pc = "done" => ReportPrinted /\ exitCode # 1
  /\ pc = "exited" => ~ReportPrinted /\ exitCode = 1
  /\ ~Terminal => ~ReportPrinted /\ exitCode # 1
  /\ pc = "shared.copy" => idx \in DOMAIN FilesToCopy
  /\ pc = "configure.install" => idx \in DOMAIN config.apps

\* a step of the run: forward in the pipeline, the next turn of one of the
\* two loops over a list, or the rejection of a project name
Progress ==
  \/ Rank(pc') > Rank(pc) /\ ~Terminal
  \/ /\ pc' = pc
     /\ pc \in {"shared.copy", "configure.install"}
     /\ idx' = idx + 1
  \/ /\ pc' = pc
     /\ pc = "promptConfiguration"
     /\ promptError' = "Invalid project name"
     /\ UNCHANGED <<config, answered, out, dirs, files, procs>>

C21_EveryRunTerminates == <>Terminal /\ []TerminalStates /\ [][Progress]_vars

\* a run that went through both loops and ended with the report
C21_Witness ==
  /\ pc = "done"
  /\ ReportPrinted
  /\ exitCode = 0
  /\ Len(config.apps) > 1
  /\ \E i \in DOMAIN FilesToCopy : IsCopy(FilesToCopy[i])

(***************************************************************************)
(* C22: the apps array of the config module and the "Installed apps" line  *)
(* of the success report both hold the whole component list of the config, *)
(* in order, whichever installs failed: a component whose install ended    *)
(* with a warning is in both. The report has the line only when the list   *)
(* is not empty.                                                           *)
(***************************************************************************)
\* the list a text joined with ', ' stands for
Split(text) == SelectSeq(text, LAMBDA t : t # ", ")

AppsLines == SelectSeq(out, LAMBDA l : l.text = "Installed apps:")

WarnedApps == {out[i].app : i \in Warnings}

C22_ListsHoldAllSelectedApps ==
  /\ ConfigModuleWritten =>
       /\ JsonParse(files[ConfigModulePath].apps) = config.apps
       /\ WarnedApps \subseteq Range(JsonParse(files[ConfigModulePath].apps))
  /\ pc = "done" =>
       /\ Len(AppsLines) = (IF Len(config.apps) > 0 THEN 1 ELSE 0)
       /\ \A i \in DOMAIN AppsLines :
            /\ Split(AppsLines[i].apps) = config.apps
            /\ WarnedApps \subseteq Range(Split(AppsLines[i].apps))
  /\ pc # "done" => Len(AppsLines) = 0

\* the first of two components failed to install and is in both lists
C22_Witness ==
  /\ pc = "done"
  /\ Len(config.apps) = 2
  /\ WarnedApps = {config.apps[1]}
  /\ Len(AppsLines) = 1
  /\ ConfigModuleWritten

====
